---- MODULE Spec2Model ----
(***************************************************************************)
(* A model of gohryt/deploy, src/action.go: the decoding of a tagged       *)
(* configuration record into an Action (Action.UnmarshalYAML), the         *)
(* dispatcher (Deploy.Process) and the three executors (Action.Copy,       *)
(* Action.Move, Action.Run).                                               *)
(*                                                                         *)
(* Strings are sequences of one-character strings, so that                 *)
(* strings.LastIndex, filepath.Base and filepath.Join are computed         *)
(* character by character.  Path elements "." and ".." do not occur in the *)
(* inputs.  Errors are sequences of causes: the empty sequence is nil, a   *)
(* single error has one cause, errors.Join concatenates.                   *)
(***************************************************************************)
EXTENDS Integers, Sequences, FiniteSets, TLC

(* ------------------------------ bounds -------------------------------- *)

\* How many times the driver hands the same Action to Deploy.Process.
MaxProcess == 2

\* The largest timeout (seconds) a Run record carries; the smallest is -1.
MaxTimeout == 1

(* ------------------------------ errors -------------------------------- *)

Nil == <<>>

E(cause) == <<cause>>

UnknownActionType == E("unknown action type")

(* ------------------------- strings and paths -------------------------- *)

\* strings.LastIndex(s, c): the 0-based index of the last c in s, or -1.
LastIndex(s, c) ==
    LET I == {i \in 1..Len(s) : s[i] = c}
    IN  IF I = {} THEN -1 ELSE (CHOOSE i \in I : \A j \in I : j <= i) - 1

\* s[:n] of Go.
Prefix(s, n) == SubSeq(s, 1, n)

RECURSIVE Squeeze(_)
\* Runs of separators replaced by one separator.
Squeeze(s) ==
    IF Len(s) < 2 THEN s
    ELSE IF s[1] = "/" /\ s[2] = "/" THEN Squeeze(Tail(s))
    ELSE <<s[1]>> \o Squeeze(Tail(s))

\* filepath.Clean on strings without "." and ".." elements.
Clean(s) ==
    IF s = <<>> THEN <<".">>
    ELSE LET q == Squeeze(s)
         IN  IF Len(q) > 1 /\ q[Len(q)] = "/" THEN SubSeq(q, 1, Len(q) - 1) ELSE q

\* filepath.Join(a, b): empty elements are ignored, the rest is joined by a
\* separator and cleaned; all elements empty gives the empty string.
Join(a, b) ==
    IF a = <<>> /\ b = <<>> THEN <<>>
    ELSE IF a = <<>> THEN Clean(b)
    ELSE IF b = <<>> THEN Clean(a)
    ELSE Clean(a \o <<"/">> \o b)

RECURSIVE StripTrailing(_)
StripTrailing(s) ==
    IF s # <<>> /\ s[Len(s)] = "/" THEN StripTrailing(SubSeq(s, 1, Len(s) - 1)) ELSE s

\* filepath.Base(s): the last element of s.
Base(s) ==
    IF s = <<>> THEN <<".">>
    ELSE LET t == StripTrailing(s)
             u == SubSeq(t, LastIndex(t, "/") + 2, Len(t))
         IN  IF u = <<>> THEN <<"/">> ELSE u

RECURSIVE SplitAcc(_, _, _)
SplitAcc(s, cur, acc) ==
    IF s = <<>> THEN (IF cur = <<>> THEN acc ELSE Append(acc, cur))
    ELSE IF Head(s) = "/"
         THEN SplitAcc(Tail(s), <<>>, IF cur = <<>> THEN acc ELSE Append(acc, cur))
         ELSE SplitAcc(Tail(s), Append(cur, Head(s)), acc)

\* The elements of a path string.
Split(s) == SplitAcc(s, <<>>, <<>>)

\* os.Getwd(): the working directory of the process.
Cwd == <<"/", "w">>

\* The file a non-empty path string names: its elements from the root, a
\* relative one taken from the working directory.
Resolve(s) == IF s[1] = "/" THEN Split(s) ELSE Split(Cwd) \o Split(s)

Parent(p) == SubSeq(p, 1, Len(p) - 1)

IsPrefixOf(p, q) == Len(p) <= Len(q) /\ SubSeq(q, 1, Len(p)) = p

(* ---------------------------- file system ----------------------------- *)
\* A file system is a function from the existing paths (sequences of
\* elements, the root being the empty one) to "DIR" or to a file's bytes.

IsDir(fs, p) == p \in DOMAIN fs /\ fs[p] = "DIR"

IsFile(fs, p) == p \in DOMAIN fs /\ fs[p] # "DIR"

TrailingSlash(s) == s # <<>> /\ s[Len(s)] = "/"

\* os.Open(name): nil, or the error.
OpenErr(fs, name) ==
    IF name = <<>> THEN E("ENOENT")
    ELSE LET p == Resolve(name)
         IN  IF p \notin DOMAIN fs THEN E("ENOENT")
             ELSE IF TrailingSlash(name) /\ ~IsDir(fs, p) THEN E("ENOTDIR")
             ELSE Nil

\* os.MkdirAll(name, perm): every missing directory down to name is made;
\* an element that exists and is no directory is an error.
MkdirAll(fs, name) ==
    LET p    == Resolve(name)
        pre  == {SubSeq(p, 1, n) : n \in 0..Len(p)}
        made == pre \ DOMAIN fs
    IN  IF \E q \in pre : IsFile(fs, q)
        THEN [err |-> E("ENOTDIR"), fs |-> fs]
        ELSE [err |-> Nil,
              fs  |-> [q \in DOMAIN fs \cup made |-> IF q \in made THEN "DIR" ELSE fs[q]]]

\* os.Create(name): the file is created or truncated.
Create(fs, name) ==
    IF name = <<>> THEN [err |-> E("ENOENT"), fs |-> fs]
    ELSE LET p == Resolve(name)
         IN  IF TrailingSlash(name) \/ IsDir(fs, p) THEN [err |-> E("EISDIR"), fs |-> fs]
             ELSE IF Parent(p) \notin DOMAIN fs THEN [err |-> E("ENOENT"), fs |-> fs]
             ELSE IF ~IsDir(fs, Parent(p)) THEN [err |-> E("ENOTDIR"), fs |-> fs]
             ELSE [err |-> Nil,
                   fs  |-> [q \in DOMAIN fs \cup {p} |-> IF q = p THEN "" ELSE fs[q]]]

\* A faulty Rename, which the Move claim must tell from Rename: the bytes
\* are copied to the new name and the old name is kept.
RenameKeepsSource(fs, old, new) ==
    IF old = <<>> \/ new = <<>> THEN [err |-> E("ENOENT"), fs |-> fs]
    ELSE LET po == Resolve(old)
             pn == Resolve(new)
         IN  IF po \notin DOMAIN fs \/ ~IsDir(fs, Parent(pn)) \/ IsDir(fs, pn) \/ IsDir(fs, po)
             THEN [err |-> E("rename"), fs |-> fs]
             ELSE [err |-> Nil,
                   fs  |-> [q \in DOMAIN fs \cup {pn} |-> IF q = pn THEN fs[po] ELSE fs[q]]]

\* os.Rename(old, new): rename(2), after Go's own refusal to rename onto an
\* existing directory.  Renaming a file onto itself succeeds and does nothing.
Rename(fs, old, new) ==
    IF old = <<>> \/ new = <<>> THEN [err |-> E("ENOENT"), fs |-> fs]
    ELSE LET po == Resolve(old)
             pn == Resolve(new)
             moved == {q \in DOMAIN fs : IsPrefixOf(po, q)}
             To(q) == pn \o SubSeq(q, Len(po) + 1, Len(q))
             dom == ((DOMAIN fs) \ moved) \cup {To(q) : q \in moved}
         IN  IF IsDir(fs, pn) THEN [err |-> E("EEXIST"), fs |-> fs]
             ELSE IF po \notin DOMAIN fs THEN [err |-> E("ENOENT"), fs |-> fs]
             ELSE IF Parent(pn) \notin DOMAIN fs THEN [err |-> E("ENOENT"), fs |-> fs]
             ELSE IF ~IsDir(fs, Parent(pn)) THEN [err |-> E("ENOTDIR"), fs |-> fs]
             ELSE IF IsFile(fs, po) /\ (TrailingSlash(old) \/ TrailingSlash(new))
                  THEN [err |-> E("ENOTDIR"), fs |-> fs]
             ELSE IF IsDir(fs, po) /\ IsFile(fs, pn) THEN [err |-> E("ENOTDIR"), fs |-> fs]
             ELSE IF IsDir(fs, po) /\ IsPrefixOf(po, pn) THEN [err |-> E("EINVAL"), fs |-> fs]
             ELSE IF po = pn THEN [err |-> Nil, fs |-> fs]
             ELSE [err |-> Nil,
                   fs  |-> [q \in dom |->
                              IF \E m \in moved : To(m) = q
                              THEN fs[CHOOSE m \in moved : To(m) = q]
                              ELSE fs[q]]]

(* ------------------------ the process's surroundings ------------------ *)

\* exec.LookPath: the bare names the search path holds, each with the file
\* it is found at.
SearchPath == {<<<<"s">>, <<"/", "b", "/", "s">>>>}

\* The executable files that exist, by absolute path.
Executables == {<<"/", "b", "/", "s">>, <<"/", "w", "/", "t", "/", "r">>}

\* os.Environ()
Environ == <<"PATH=/b">>

DeadlineExceeded == E("context deadline exceeded")

(* ------------------------------- inputs ------------------------------- *)

Types == {"copy", "move", "run", "delete", ""}

\* What the record's node looks like to yaml's Decode: "ok", a node that
\* does not decode into ActionType ("badHeader"), or a variant field of the
\* wrong kind ("badBody": `to` for copy and move, `timeout` for run).
Shapes == {"ok", "badHeader", "badBody"}

Headers == {<<"", "">>, <<"build", "">>, <<"build", "next">>}

Froms == {<<>>, <<"a">>, <<"d", "/", "a">>, <<"d">>, <<"b">>}

Tos == {<<>>, <<"c">>, <<"d", "/", "a">>, <<"e", "/", "c">>, <<"/", "c">>,
        <<"a", "/", "c">>}

Paths == {<<>>, <<"s">>, <<"q">>, <<"t", "/", "r">>, <<"t", "/", "q">>}

Timeouts == (-1)..MaxTimeout

Queries == {<<>>, <<"5">>}

Environments == {<<"K=V">>}

ZeroRecord ==
    [type |-> "", name |-> "", follow |-> "", shape |-> "ok", from |-> <<>>,
     to |-> <<>>, path |-> <<>>, timeout |-> 0, environment |-> <<>>, query |-> <<>>]

\* The configuration records: a key that is absent decodes as the zero value.
Records ==
    LET H == {[ZeroRecord EXCEPT !.type = t, !.name = h[1], !.follow = h[2], !.shape = s] :
                t \in Types, h \in Headers, s \in Shapes}
    IN  UNION {
          IF r.type \in {"copy", "move"}
          THEN {[r EXCEPT !.from = f, !.to = t] : f \in Froms, t \in Tos}
          ELSE IF r.type = "run"
          THEN {[r EXCEPT !.path = p, !.timeout = t, !.environment = e, !.query = q] :
                  p \in Paths, t \in Timeouts, e \in Environments, q \in Queries}
          ELSE {r} : r \in H}

\* deploy.Folder
Folders == {<<"/", "o">>}

\* Action.Next, a value of the driver's; "nil" is the nil Do.
Tokens == {"nil", "do1"}

FsBare ==
    (<<>> :> "DIR") @@ (<<<<"w">>>> :> "DIR") @@ (<<<<"w">>, <<"a">>>> :> "x")
    @@ (<<<<"w">>, <<"d">>>> :> "DIR") @@ (<<<<"w">>, <<"d">>, <<"a">>>> :> "y")

\* The file systems a run starts from: without and with the deploy folder
\* and a file at "c".
InitFs == {FsBare, FsBare @@ (<<<<"o">>>> :> "DIR") @@ (<<<<"w">>, <<"c">>>> :> "z")}

(* ------------------------------- state -------------------------------- *)

VARIABLES
    rec,        \* the yaml.Node handed to UnmarshalYAML
    folder,     \* deploy.Folder
    fs,         \* the file system
    action,     \* the Action: Name, Follow, Data, Next
    decodeErr,  \* what UnmarshalYAML returned
    pc,         \* "decode", "idle", the steps of a Run in flight, "done"
    processed,  \* Process calls returned so far
    pre,        \* the Action and the file system when Process was last called
    calls,      \* the executors the Process call in hand has invoked
    step,       \* the step of Copy or Move that returned the error, or "none"
    result,     \* the Result of the Process call in hand
    cmd,        \* the exec.Cmd of a Run: context, subprocess, errors
    log         \* the steps of Run taken since the start step was called

vars == <<rec, folder, fs, action, decodeErr, pc, processed, pre, calls, step, result, cmd, log>>

NilData == [kind |-> "nil"]

NoCmd ==
    [armed |-> FALSE, ctxDone |-> FALSE, proc |-> "none", spawned |-> FALSE,
     killed |-> FALSE, interrupted |-> FALSE, path |-> <<>>, args |-> <<>>, env |-> <<>>,
     waitErr |-> Nil, one |-> Nil, two |-> Nil]

Init ==
    /\ rec \in Records
    /\ folder \in Folders
    /\ fs \in InitFs
    /\ \E n \in Tokens : action = [Name |-> "", Follow |-> "", Data |-> NilData, Next |-> n]
    /\ decodeErr = Nil
    /\ pc = "decode"
    /\ processed = 0
    /\ pre = [action |-> action, fs |-> fs]
    /\ calls = <<>>
    /\ step = "none"
    /\ result = [Next |-> "nil", Error |-> Nil]
    /\ cmd = NoCmd
    /\ log = <<>>

(* ------------------------ Action.UnmarshalYAML ------------------------ *)

\* value.Decode(t) into an ActionType.
DecodeHeader(v) ==
    IF v.shape = "badHeader"
    THEN [err |-> E("yaml: unmarshal errors"), t |-> [Type |-> "", Name |-> "", Follow |-> ""]]
    ELSE [err |-> Nil, t |-> [Type |-> v.type, Name |-> v.name, Follow |-> v.follow]]

\* A faulty NewData, which the dispatch claim must tell from NewData:
\* "move" allocates a Copy.
NewDataMoveAsCopy(type) ==
    CASE type = "copy" -> [kind |-> "Copy", From |-> <<>>, To |-> <<>>]
      [] type = "move" -> [kind |-> "Copy", From |-> <<>>, To |-> <<>>]
      [] type = "run"  -> [kind |-> "Run", Path |-> <<>>, Timeout |-> 0,
                           Environment |-> <<>>, Query |-> <<>>]
      [] OTHER -> NilData

\* The switch on t.Type: new(Copy), new(Move), new(Run), or none.
NewData(type) ==
    CASE type = "copy" -> [kind |-> "Copy", From |-> <<>>, To |-> <<>>]
      [] type = "move" -> [kind |-> "Move", From |-> <<>>, To |-> <<>>]
      [] type = "run"  -> [kind |-> "Run", Path |-> <<>>, Timeout |-> 0,
                           Environment |-> <<>>, Query |-> <<>>]
      [] OTHER -> NilData

\* value.Decode(action.Data): yaml fills the fields it can and reports the
\* ones it cannot.  The `validate:"required"` tags are read by nothing.
DecodeBody(v, d) ==
    LET bad == v.shape = "badBody"
        err == IF bad THEN E("yaml: unmarshal errors") ELSE Nil
    IN  IF d.kind = "Run"
        THEN [err |-> err,
              data |-> [d EXCEPT !.Path = v.path, !.Timeout = IF bad THEN 0 ELSE v.timeout,
                                 !.Environment = v.environment, !.Query = v.query]]
        ELSE [err |-> err,
              data |-> [d EXCEPT !.From = v.from, !.To = IF bad THEN <<>> ELSE v.to]]

UnmarshalYAML(a, v) ==
    LET h == DecodeHeader(v)
    IN  IF h.err # Nil THEN [err |-> h.err, action |-> a]
        ELSE LET a1 == [a EXCEPT !.Name = IF h.t.Name # "" THEN h.t.Name ELSE h.t.Type,
                                 !.Follow = h.t.Follow]
                 d  == NewData(h.t.Type)
             IN  IF d.kind = "nil" THEN [err |-> UnknownActionType, action |-> a1]
                 ELSE LET b == DecodeBody(v, d)
                      IN  [err |-> b.err, action |-> [a1 EXCEPT !.Data = b.data]]

Decode ==
    /\ pc = "decode"
    /\ LET r == UnmarshalYAML(action, rec)
       IN  /\ action' = r.action
           /\ decodeErr' = r.err
    /\ pc' = "idle"
    /\ UNCHANGED <<rec, folder, fs, processed, pre, calls, step, result, cmd, log>>

(* ---------------------------- Action.Copy ----------------------------- *)

\* bufio.NewWriter(target).ReadFrom(source): the bytes the source holds now
\* are written to the target; a directory cannot be read.
Transfer(f, from, to) ==
    LET ps == Resolve(from)
        pt == Resolve(to)
    IN  IF IsDir(f, ps) THEN [err |-> E("EISDIR"), fs |-> f]
        ELSE [err |-> Nil, fs |-> [f EXCEPT ![pt] = f[ps]]]

\* Copy(path) on the *Copy `copy`: the error, the Copy as it is left, the
\* file system as it is left and the step that failed.  source.Name() is the
\* name the file was opened with.
CopyExec(copy, path, f) ==
    LET oerr == OpenErr(f, copy.From)
        to   == IF copy.To = <<>> THEN Join(path, copy.From) ELSE copy.To
        c1   == [copy EXCEPT !.To = to]
        idx  == LastIndex(to, "/")
        m    == IF idx > 0 THEN MkdirAll(f, Prefix(to, idx)) ELSE [err |-> Nil, fs |-> f]
        t    == Create(m.fs, to)
        w    == Transfer(t.fs, copy.From, to)
    IN  IF oerr # Nil THEN [err |-> oerr, data |-> copy, fs |-> f, step |-> "open"]
        ELSE IF m.err # Nil THEN [err |-> m.err, data |-> c1, fs |-> m.fs, step |-> "mkdir"]
        ELSE IF t.err # Nil THEN [err |-> t.err, data |-> c1, fs |-> t.fs, step |-> "create"]
        ELSE IF w.err # Nil THEN [err |-> w.err, data |-> c1, fs |-> w.fs, step |-> "transfer"]
        ELSE [err |-> Nil, data |-> c1, fs |-> w.fs, step |-> "none"]

(* ---------------------------- Action.Move ----------------------------- *)

\* Move(path) on the *Move `move`: the directory is made from `To` as it is
\* before the defaulting.
MoveExec(move, path, f) ==
    LET oerr == OpenErr(f, move.From)
        idx  == LastIndex(move.To, "/")
        m    == IF idx > 0 THEN MkdirAll(f, Prefix(move.To, idx)) ELSE [err |-> Nil, fs |-> f]
        to   == IF move.To = <<>> THEN Join(path, move.From) ELSE move.To
        m1   == [move EXCEPT !.To = to]
        r    == Rename(m.fs, move.From, to)
    IN  IF oerr # Nil THEN [err |-> oerr, data |-> move, fs |-> f, step |-> "open"]
        ELSE IF m.err # Nil THEN [err |-> m.err, data |-> move, fs |-> m.fs, step |-> "mkdir"]
        ELSE IF r.err # Nil THEN [err |-> r.err, data |-> m1, fs |-> r.fs, step |-> "rename"]
        ELSE [err |-> Nil, data |-> m1, fs |-> r.fs, step |-> "none"]

(* --------------------------- Deploy.Process --------------------------- *)

\* A faulty NewResult, which the continuation claim must tell from
\* NewResult: Next is left at its zero value.
NewResultNoNext(a) == [Next |-> "nil", Error |-> Nil]

\* result := Result{Next: action.Next}
NewResult(a) == [Next |-> a.Next, Error |-> Nil]

\* The driver may call Process on the Action it holds.
CanProcess == pc \in {"idle", "done"} /\ processed < MaxProcess

Called(exec, required) == <<[exec |-> exec, required |-> required]>>

\* case *Copy: result.Error = action.Copy(deploy.Folder)
ProcessCopy ==
    /\ CanProcess
    /\ action.Data.kind = "Copy"
    /\ LET r == CopyExec(action.Data, folder, fs)
       IN  /\ action' = [action EXCEPT !.Data = r.data]
           /\ fs' = r.fs
           /\ step' = r.step
           /\ result' = [NewResult(action) EXCEPT !.Error = r.err]
    /\ pre' = [action |-> action, fs |-> fs]
    /\ calls' = Called("Copy", action.Data.From)
    /\ processed' = processed + 1
    /\ pc' = "done"
    /\ cmd' = NoCmd
    /\ log' = <<>>
    /\ UNCHANGED <<rec, folder, decodeErr>>

\* case *Move: result.Error = action.Move(deploy.Folder)
ProcessMove ==
    /\ CanProcess
    /\ action.Data.kind = "Move"
    /\ LET r == MoveExec(action.Data, folder, fs)
       IN  /\ action' = [action EXCEPT !.Data = r.data]
           /\ fs' = r.fs
           /\ step' = r.step
           /\ result' = [NewResult(action) EXCEPT !.Error = r.err]
    /\ pre' = [action |-> action, fs |-> fs]
    /\ calls' = Called("Move", action.Data.From)
    /\ processed' = processed + 1
    /\ pc' = "done"
    /\ cmd' = NoCmd
    /\ log' = <<>>
    /\ UNCHANGED <<rec, folder, decodeErr>>

\* default: result.Error = errors.New("unknown action type")
ProcessUnknown ==
    /\ CanProcess
    /\ action.Data.kind = "nil"
    /\ result' = [NewResult(action) EXCEPT !.Error = UnknownActionType]
    /\ pre' = [action |-> action, fs |-> fs]
    /\ calls' = <<>>
    /\ step' = "none"
    /\ processed' = processed + 1
    /\ pc' = "done"
    /\ cmd' = NoCmd
    /\ log' = <<>>
    /\ UNCHANGED <<rec, folder, fs, action, decodeErr>>

(* ----------------------------- Action.Run ----------------------------- *)

\* exec.LookPath(name)
LookPath(name) ==
    IF \E e \in SearchPath : e[1] = name
    THEN [err |-> Nil, path |-> (CHOOSE e \in SearchPath : e[1] = name)[2]]
    ELSE [err |-> E("executable file not found in $PATH"), path |-> <<>>]

\* A faulty ResolvePath, which the resolution claim must tell from
\* ResolvePath: the error of LookPath is dropped and the name is kept.
ResolvePathIgnoresLookPath(path, wdErr) ==
    IF Base(path) = path
    THEN [err |-> Nil, path |-> IF LookPath(path).err = Nil THEN LookPath(path).path ELSE path]
    ELSE IF wdErr THEN [err |-> E("getwd"), path |-> path]
    ELSE [err |-> Nil, path |-> Join(Cwd, path)]

\* The resolution of run.Path: a bare name by the search path, anything
\* else joined to the working directory.  On an error run.Path is kept.
ResolvePath(path, wdErr) ==
    IF Base(path) = path
    THEN LET l == LookPath(path)
         IN  IF l.err # Nil THEN [err |-> l.err, path |-> path] ELSE [err |-> Nil, path |-> l.path]
    ELSE IF wdErr THEN [err |-> E("getwd"), path |-> path]
    ELSE [err |-> Nil, path |-> Join(Cwd, path)]

\* A faulty JoinErrors, which the replay claim must tell from JoinErrors:
\* the error of the stderr replay is dropped.
JoinErrorsDropsLast(err, one, two) == err \o one

\* errors.Join(err, one, two): nil when all three are nil.
JoinErrors(err, one, two) == err \o one \o two

\* case *Run: result.Error = action.Run(), up to the end of the resolution
\* of run.Path; os.Getwd may fail.
ProcessRun ==
    /\ CanProcess
    /\ action.Data.kind = "Run"
    /\ \E wdErr \in BOOLEAN :
         LET r == ResolvePath(action.Data.Path, wdErr)
         IN  /\ action' = [action EXCEPT !.Data.Path = r.path]
             /\ result' = [NewResult(action) EXCEPT !.Error = r.err]
             /\ pc' = IF r.err # Nil THEN "done" ELSE "runCommand"
             /\ processed' = IF r.err # Nil THEN processed + 1 ELSE processed
    /\ pre' = [action |-> action, fs |-> fs]
    /\ calls' = Called("Run", action.Data.Path)
    /\ step' = "none"
    /\ cmd' = NoCmd
    /\ log' = <<>>
    /\ UNCHANGED <<rec, folder, fs, decodeErr>>

\* The buffers and the command: with a timeout > 0 the context's deadline
\* is armed.
RunCommand ==
    /\ pc = "runCommand"
    /\ cmd' = [NoCmd EXCEPT !.armed = action.Data.Timeout > 0,
                            !.path = action.Data.Path,
                            !.args = action.Data.Query,
                            !.env = Environ \o action.Data.Environment]
    /\ pc' = "runStart"
    /\ UNCHANGED <<rec, folder, fs, action, decodeErr, processed, pre, calls, step, result, log>>

\* The deadline elapses while Run is in Start or Wait: the context is done;
\* a subprocess that is running is killed, one that has exited and is not
\* yet waited for is signalled in vain.
DeadlineFire ==
    /\ pc \in {"runStart", "runWait"}
    /\ cmd.armed /\ ~cmd.ctxDone
    /\ cmd' = [cmd EXCEPT !.ctxDone = TRUE,
                          !.proc = IF cmd.proc = "running" THEN "killed" ELSE cmd.proc,
                          !.killed = cmd.proc = "running",
                          !.interrupted = cmd.proc # "none"]
    /\ UNCHANGED <<rec, folder, fs, action, decodeErr, pc, processed, pre, calls, step, result, log>>

\* err := command.Start(): a context that is done, or a file that cannot
\* be executed, is an error and Run returns it.
RunStart ==
    /\ pc = "runStart"
    /\ LET err == IF cmd.ctxDone THEN DeadlineExceeded
                  ELSE IF cmd.path \notin Executables THEN E("fork/exec")
                  ELSE Nil
       IN  /\ cmd' = IF err = Nil THEN [cmd EXCEPT !.proc = "running", !.spawned = TRUE] ELSE cmd
           /\ result' = [result EXCEPT !.Error = err]
           /\ pc' = IF err = Nil THEN "runWait" ELSE "done"
           /\ processed' = IF err = Nil THEN processed ELSE processed + 1
    /\ log' = <<"start">>
    /\ UNCHANGED <<rec, folder, fs, action, decodeErr, pre, calls, step>>

\* The subprocess exits on its own, with status 0 or 1.
SubprocessExit ==
    /\ cmd.proc = "running"
    /\ \E status \in {"exit0", "exit1"} : cmd' = [cmd EXCEPT !.proc = status]
    /\ UNCHANGED <<rec, folder, fs, action, decodeErr, pc, processed, pre, calls, step, result, log>>

\* err = command.Wait(): returns once the subprocess is gone.  A status
\* that is not success is an ExitError; the context's error is reported
\* only for a subprocess that exited with success after it was signalled.
WaitError(c) ==
    IF c.proc = "killed" THEN E("signal: killed")
    ELSE IF c.proc = "exit1" THEN E("exit status 1")
    ELSE IF c.interrupted THEN DeadlineExceeded
    ELSE Nil

RunWait ==
    /\ pc = "runWait"
    /\ cmd.proc \in {"exit0", "exit1", "killed"}
    /\ cmd' = [cmd EXCEPT !.waitErr = WaitError(cmd)]
    /\ log' = Append(log, "wait")
    /\ pc' = "runReplayStdout"
    /\ UNCHANGED <<rec, folder, fs, action, decodeErr, processed, pre, calls, step, result>>

ReplayErrors(stream) == {Nil, E(stream)}

\* _, one := os.Stdout.ReadFrom(stdout)
RunReplayStdout ==
    /\ pc = "runReplayStdout"
    /\ \E one \in ReplayErrors("stdout: write") : cmd' = [cmd EXCEPT !.one = one]
    /\ log' = Append(log, "stdout")
    /\ pc' = "runReplayStderr"
    /\ UNCHANGED <<rec, folder, fs, action, decodeErr, processed, pre, calls, step, result>>

\* _, two := os.Stderr.ReadFrom(stderr); return errors.Join(err, one, two)
RunReplayStderr ==
    /\ pc = "runReplayStderr"
    /\ \E two \in ReplayErrors("stderr: write") :
         /\ cmd' = [cmd EXCEPT !.two = two]
         /\ result' = [result EXCEPT !.Error = JoinErrors(cmd.waitErr, cmd.one, two)]
    /\ log' = Append(log, "stderr")
    /\ processed' = processed + 1
    /\ pc' = "done"
    /\ UNCHANGED <<rec, folder, fs, action, decodeErr, pre, calls, step>>

(* ---------------------------- specification --------------------------- *)

Next ==
    \/ Decode
    \/ ProcessCopy
    \/ ProcessMove
    \/ ProcessUnknown
    \/ ProcessRun
    \/ RunCommand
    \/ DeadlineFire
    \/ RunStart
    \/ SubprocessExit
    \/ RunWait
    \/ RunReplayStdout
    \/ RunReplayStderr

Spec == Init /\ [][Next]_vars

(* ------------------------------- claims ------------------------------- *)

InProcess == pc \notin {"decode", "idle"}

Was == pre.action.Data

HasCause(err, cause) == \E i \in 1..Len(err) : err[i] = cause

\* C1 (as stated): for a record whose header decodes and whose type is
\* none of copy, move, run, UnmarshalYAML returns "unknown action type" and
\* leaves nothing of the record in the Action: no name, no follow, no data.
C1_UnknownTypeLeavesNoAction ==
    (pc # "decode" /\ rec.shape # "badHeader" /\ rec.type \notin {"copy", "move", "run"}) =>
        /\ decodeErr = UnknownActionType
        /\ action.Name = ""
        /\ action.Follow = ""
        /\ action.Data = NilData

RequiredEmpty(v) ==
    \/ v.type \in {"copy", "move"} /\ v.from = <<>>
    \/ v.type = "run" /\ v.path = <<>>

\* C2 (as stated): a record of a valid type whose required field (`from`,
\* `path`) is missing or empty fails to decode, and no executor is invoked
\* on an Action whose required field is empty.
C2_MissingRequiredFailsDecode ==
    /\ (pc # "decode" /\ RequiredEmpty(rec)) => decodeErr # Nil
    /\ \A i \in 1..Len(calls) : calls[i].required # <<>>

ExecutorOf(type) ==
    CASE type = "copy" -> "Copy"
      [] type = "move" -> "Move"
      [] type = "run"  -> "Run"
      [] OTHER -> "nil"

\* C3: an Action that decoded without error holds the variant of its type
\* tag, and each Process call on it invokes exactly one executor, once, the
\* one of that tag, and never returns "unknown action type".
C3_DecodedActionDispatchesOnce ==
    (pc # "decode" /\ decodeErr = Nil) =>
        /\ ExecutorOf(rec.type) \in {"Copy", "Move", "Run"}
        /\ action.Data.kind = ExecutorOf(rec.type)
        /\ InProcess =>
             /\ Len(calls) = 1
             /\ calls[1].exec = ExecutorOf(rec.type)
             /\ result.Error # UnknownActionType

\* C3's case: a decoded move has been processed, by Move alone.
C3_Witness ==
    /\ pc = "done"
    /\ decodeErr = Nil
    /\ rec.type = "move"
    /\ calls = Called("Move", Was.From)
    /\ result.Error = Nil

\* C4: whatever the executor's outcome, the Result's Next is the Action's
\* Next as it was when Process was called, and Process leaves the Action's
\* Next and Follow as they were.
C4_ResultCarriesNext ==
    InProcess =>
        /\ result.Next = pre.action.Next
        /\ action.Next = pre.action.Next
        /\ action.Follow = pre.action.Follow

\* C4's case: an executor has failed and the Result carries a non-nil Next.
C4_Witness ==
    /\ pc = "done"
    /\ calls # <<>>
    /\ result.Error # Nil
    /\ pre.action.Next = "do1"
    /\ result.Next = "do1"

\* C5 (as stated): a Copy or Move whose `to` was empty uses the deploy
\* folder joined with the last element of `from` as its destination.
C5_DefaultDestinationIsBasename ==
    (pc = "done" /\ Was.kind \in {"Copy", "Move"} /\ Was.To = <<>> /\ step # "open") =>
        action.Data.To = Join(folder, Base(Was.From))

MoveCase == pc = "done" /\ Was.kind = "Move" /\ LastIndex(Was.To, "/") >= 0

Src == Resolve(Was.From)

Dst == Resolve(Was.To)

\* Move reached its rename with the parent directory of `to` in place, and
\* an error of the open or mkdir step left an existing source as it was.
MoveFrame ==
    /\ step \in {"rename", "none"} => IsDir(fs, Parent(Dst))
    /\ (step \in {"open", "mkdir"} /\ Was.From # <<>>) =>
         (Src \in DOMAIN pre.fs => Src \in DOMAIN fs /\ fs[Src] = pre.fs[Src])

\* C6 (as stated): for a Move whose `to` has a directory component, the
\* parent of `to` exists before the rename; after success the source path
\* is gone and the destination holds what the source held; after an error
\* of the open or mkdir step the source is as it was.
C6_MoveRemovesSource ==
    MoveCase =>
        /\ MoveFrame
        /\ result.Error = Nil =>
             /\ Src \notin DOMAIN fs
             /\ Dst \in DOMAIN fs /\ fs[Dst] = pre.fs[Src]

\* C6 (amended): as C6, but the source path is gone only when `to` names
\* another file than `from`; when both name the same file the rename does
\* nothing and the file stays where it is.
C6_MoveRemovesSourceUnlessSameFile ==
    MoveCase =>
        /\ MoveFrame
        /\ result.Error = Nil =>
             /\ Dst \in DOMAIN fs /\ fs[Dst] = pre.fs[Src]
             /\ Src # Dst => Src \notin DOMAIN fs
             /\ Src = Dst => fs = pre.fs

\* C6's case: a Move to another file has succeeded after making the
\* parent directory of `to`, which did not exist.
C6_Witness ==
    /\ MoveCase
    /\ result.Error = Nil
    /\ Src # Dst
    /\ Parent(Dst) \notin DOMAIN pre.fs
    /\ IsFile(fs, Dst)

\* C7 (as stated): when the deadline of a Run with timeout > 0 elapses
\* before the subprocess exits, the subprocess is killed and the error Run
\* returns is a deadline-exceeded error.
C7_DeadlineKillReportsDeadlineExceeded ==
    (pc = "done" /\ cmd.killed) =>
        /\ Was.Timeout > 0
        /\ HasCause(result.Error, "context deadline exceeded")

\* Whether the path of a Run names no existing executable: a bare name the
\* search path does not hold, or a path that leads to no executable file.
PathMissing(path) ==
    IF path = <<>> THEN TRUE
    ELSE IF Base(path) = path THEN LookPath(path).err # Nil
    ELSE (IF path[1] = "/" THEN Clean(path) ELSE Join(Cwd, path)) \notin Executables

MissingCase == InProcess /\ Was.kind = "Run" /\ PathMissing(Was.Path)

NoReplay == \A i \in 1..Len(log) : log[i] \notin {"wait", "stdout", "stderr"}

\* C8 (as stated, for a path that is not empty): a Run whose path names no
\* existing executable fails in the resolution step: the start step is
\* never reached, no deadline is armed, no subprocess is started, nothing
\* is replayed.
C8_MissingExecutableFailsInResolution ==
    (MissingCase /\ Was.Path # <<>> /\ pc = "done") =>
        /\ result.Error # Nil
        /\ log = <<>>
        /\ ~cmd.armed
        /\ ~cmd.spawned

\* C8 (amended): a Run whose path names no existing executable never
\* starts a subprocess and replays nothing, and it returns an error; a
\* bare name fails in the resolution step, before a deadline is armed and
\* before the start step, while a path with a directory component fails in
\* the start step.
C8_MissingExecutableNeverSpawns ==
    MissingCase =>
        /\ ~cmd.spawned
        /\ NoReplay
        /\ pc \in {"runCommand", "runStart", "done"}
        /\ pc = "done" => result.Error # Nil
        /\ Base(Was.Path) = Was.Path => (pc = "done" /\ log = <<>> /\ ~cmd.armed)
        /\ (Base(Was.Path) # Was.Path /\ pc = "done" /\ result.Error # E("getwd")) =>
             log = <<"start">>

\* C8's case: a path with a directory component that names no executable
\* has failed in the start step, with the deadline armed.
C8_Witness ==
    /\ MissingCase
    /\ pc = "done"
    /\ Base(Was.Path) # Was.Path
    /\ log = <<"start">>
    /\ cmd.armed
    /\ ~cmd.spawned

FullLog == <<"start", "wait", "stdout", "stderr">>

\* C9: once the subprocess is started, stdout and then stderr are replayed
\* only after the wait step returned, both whatever the wait and the first
\* replay returned, and Run returns nil exactly when the wait error and
\* both replay errors are nil.
C9_ReplayAfterWaitAndJoined ==
    /\ IsPrefixOf(log, FullLog)
    /\ (pc = "done" /\ cmd.spawned) =>
         /\ log = FullLog
         /\ result.Error = Nil <=> (cmd.waitErr = Nil /\ cmd.one = Nil /\ cmd.two = Nil)

\* C9's case: the subprocess exited with status 0, the wait error and the
\* stdout replay error are nil, the stderr replay failed, and Run returned
\* an error.
C9_Witness ==
    /\ pc = "done"
    /\ cmd.spawned
    /\ cmd.proc = "exit0"
    /\ cmd.waitErr = Nil
    /\ cmd.one = Nil
    /\ cmd.two # Nil
    /\ result.Error # Nil

\* C10 (as stated, for a Run whose path is not empty): Process changes
\* nothing of the Action but the `to` of a Copy or Move, and that only when
\* it was empty.
C10_OnlyToChanges ==
    (pc = "done" /\ (Was.kind = "Run" => Was.Path # <<>>)) =>
        /\ action.Name = pre.action.Name
        /\ action.Follow = pre.action.Follow
        /\ action.Next = pre.action.Next
        /\ action.Data.kind = Was.kind
        /\ IF Was.kind \in {"Copy", "Move"}
           THEN /\ action.Data.From = Was.From
                /\ action.Data.To # Was.To => Was.To = <<>>
           ELSE action.Data = Was

====
